---- MODULE Spec2Model ----
(***************************************************************************)
(* Eventfloww (src/script.js): the event store of a single-page app.       *)
(* The global array `events` is mirrored under the localStorage key        *)
(* 'events'; handlers vote, comment and create events, and listings render *)
(* sorted copies.  Text values are sequences of one-character strings,     *)
(* instants (Date.now(), ISO timestamps) are clock ticks.                  *)
(***************************************************************************)
EXTENDS Integers, Sequences, FiniteSets, TLC

(* ------------------------------ bounds -------------------------------- *)
\* handler runs (events dispatched, timer callbacks) after the page is opened
MaxSteps == 4
\* clock ticks that pass in one run
MaxClock == 1
\* values of the random id fragment
MaxRand == 1

(* ------------------------------- text --------------------------------- *)
IsSpace(c) == c = " "

RECURSIVE TrimLeft(_)
TrimLeft(s) == IF s # <<>> /\ IsSpace(Head(s)) THEN TrimLeft(Tail(s)) ELSE s

RECURSIVE TrimRight(_)
TrimRight(s) ==
    IF s # <<>> /\ IsSpace(s[Len(s)]) THEN TrimRight(SubSeq(s, 1, Len(s) - 1)) ELSE s

\* the value used as typed
untrimmed(s) == s

\* String.prototype.trim
trim(s) == TrimRight(TrimLeft(s))

\* n copies of the character c
Rep(c, n) == [i \in 1..n |-> c]

(* ------------------------------ sorting ------------------------------- *)
\* Array.prototype.sort with a numeric comparator is stable: the indices of
\* `keys` in ascending key order, equal keys in index order.
RECURSIVE SortIdx(_, _)
SortIdx(keys, rest) ==
    IF rest = {} THEN <<>>
    ELSE LET m == CHOOSE i \in rest :
                      \A j \in rest : keys[i] < keys[j] \/ (keys[i] = keys[j] /\ i <= j)
         IN  <<m>> \o SortIdx(keys, rest \ {m})

\* [...s].sort(cmp) where cmp(a, b) = key(a) - key(b): a sorted copy
sort(s, keys) ==
    LET p == SortIdx(keys, 1..Len(s)) IN [n \in 1..Len(s) |-> s[p[n]]]

(* ------------------------------- dates -------------------------------- *)
Digits == <<"0", "1", "2", "3", "4", "5", "6", "7", "8", "9">>

IsDigit(c) == \E n \in 1..10 : Digits[n] = c

DigitOf(c) == (CHOOSE n \in 1..10 : Digits[n] = c) - 1

\* the decimal digit of n's last place
Dig(n) == Digits[(n % 10) + 1]

\* the text 'YYYY-MM-DD' of a calendar date, as a date input holds it
DateStr(y, m, d) ==
    <<Dig(y \div 1000), Dig(y \div 100), Dig(y \div 10), Dig(y), "-",
      Dig(m \div 10), Dig(m), "-", Dig(d \div 10), Dig(d)>>

\* new Date('YYYY-MM-DD'): the day number of the date (days from civil)
DateOf(s) ==
    LET y0 == DigitOf(s[1]) * 1000 + DigitOf(s[2]) * 100 + DigitOf(s[3]) * 10 + DigitOf(s[4])
        m  == DigitOf(s[6]) * 10 + DigitOf(s[7])
        dd == DigitOf(s[9]) * 10 + DigitOf(s[10])
        y  == IF m <= 2 THEN y0 - 1 ELSE y0
        era == y \div 400
        yoe == y - era * 400
        mp  == (m + 9) % 12
        doy == (153 * mp + 2) \div 5 + dd - 1
        doe == yoe * 365 + yoe \div 4 - yoe \div 100 + doy
    IN  era * 146097 + doe - 719468

(* ------------------------------- JSON --------------------------------- *)
\* The text of a JSON document as its sequence of tokens: punctuation, numbers,
\* strings (text values) and id strings.  Property names are fixed by position.
P(c) == [k |-> "p", p |-> c, n |-> 0, s |-> <<>>]
N(x) == [k |-> "n", p |-> "", n |-> x, s |-> <<>>]
S(x) == [k |-> "s", p |-> "", n |-> 0, s |-> x]
I(x) == [k |-> "i", p |-> x, n |-> 0, s |-> <<>>]

RECURSIVE Flatten(_)
Flatten(ss) == IF ss = <<>> THEN <<>> ELSE Head(ss) \o Flatten(Tail(ss))

\* the comment written without its date
stringifyCommentUndated(c) == <<P("{"), S(c.author), S(c.text), N(0), P("}")>>

stringifyComment(c) == <<P("{"), S(c.author), S(c.text), N(c.date), P("}")>>

stringifyEvent(e) ==
    <<P("{"), I(e.id), S(e.title), S(e.description), S(e.imageUrl), N(e.votes),
      S(e.category), S(e.date), P("[")>>
    \o Flatten([i \in 1..Len(e.comments) |-> stringifyComment(e.comments[i])])
    \o <<P("]"), P("}")>>

\* JSON.stringify(events)
JSON_stringify(evs) ==
    <<P("[")>> \o Flatten([i \in 1..Len(evs) |-> stringifyEvent(evs[i])]) \o <<P("]")>>

SyntaxError == [ok |-> FALSE, value |-> <<>>, next |-> 0]

RECURSIVE ParseComments(_, _, _)
ParseComments(t, i, acc) ==
    IF i > Len(t) THEN SyntaxError
    ELSE IF t[i] = P("]") THEN [ok |-> TRUE, value |-> acc, next |-> i + 1]
    ELSE IF /\ i + 4 <= Len(t)
            /\ t[i] = P("{") /\ t[i + 1].k = "s" /\ t[i + 2].k = "s"
            /\ t[i + 3].k = "n" /\ t[i + 4] = P("}")
         THEN ParseComments(t, i + 5,
                  Append(acc, [author |-> t[i + 1].s, text |-> t[i + 2].s,
                               date |-> t[i + 3].n]))
         ELSE SyntaxError

RECURSIVE ParseEvents(_, _, _)
ParseEvents(t, i, acc) ==
    IF i > Len(t) THEN SyntaxError
    ELSE IF t[i] = P("]")
         THEN IF i = Len(t) THEN [ok |-> TRUE, value |-> acc, next |-> i + 1]
              ELSE SyntaxError
    ELSE IF /\ i + 8 <= Len(t)
            /\ t[i] = P("{") /\ t[i + 1].k = "i" /\ t[i + 2].k = "s"
            /\ t[i + 3].k = "s" /\ t[i + 4].k = "s" /\ t[i + 5].k = "n"
            /\ t[i + 6].k = "s" /\ t[i + 7].k = "s" /\ t[i + 8] = P("[")
         THEN LET cs == ParseComments(t, i + 9, <<>>) IN
              IF cs.ok /\ cs.next <= Len(t) /\ t[cs.next] = P("}")
              THEN ParseEvents(t, cs.next + 1,
                       Append(acc, [id |-> t[i + 1].p, title |-> t[i + 2].s,
                                    description |-> t[i + 3].s,
                                    imageUrl |-> t[i + 4].s, votes |-> t[i + 5].n,
                                    category |-> t[i + 6].s, date |-> t[i + 7].s,
                                    comments |-> cs.value]))
              ELSE SyntaxError
         ELSE SyntaxError

\* JSON.parse(text): .ok is FALSE where JSON.parse throws a SyntaxError
JSON_parse(t) ==
    IF Len(t) >= 1 /\ t[1] = P("[") THEN ParseEvents(t, 2, <<>>) ELSE SyntaxError

(* ------------------------------ the seed ------------------------------ *)
\* Texts of the seed are abbreviated; ids, votes, dates and the comments'
\* order in time are the literal's.  Comment instants: 2025-05-17T15:00 is
\* tick 1, 2025-05-18T10:00 tick 2, 2025-05-18T11:30 tick 3.
SeedEvents ==
    << [id |-> "1", title |-> <<"I", "A">>, description |-> <<"a", "i">>,
        imageUrl |-> <<"a", ".", "j">>, votes |-> 120,
        category |-> <<"t", "e", "c">>, date |-> DateStr(2025, 7, 15),
        comments |-> << [author |-> <<"J", "P">>, text |-> <<"e", "m">>, date |-> 2],
                        [author |-> <<"M", "G">>, text |-> <<"e", "s">>, date |-> 3] >>],
       [id |-> "2", title |-> <<"F", "M">>, description |-> <<"f", "i">>,
        imageUrl |-> <<"f", ".", "j">>, votes |-> 85,
        category |-> <<"m", "u", "s">>, date |-> DateStr(2025, 8, 22), comments |-> <<>>],
       [id |-> "3", title |-> <<"E", "A">>, description |-> <<"c", "o">>,
        imageUrl |-> <<"r", ".", "j">>, votes |-> 95,
        category |-> <<"a", "r", "t">>, date |-> DateStr(2025, 9, 5),
        comments |-> << [author |-> <<"C", "L">>, text |-> <<"i", "m">>, date |-> 1] >>],
       [id |-> "4", title |-> <<"C", "K">>, description |-> <<"u", "n">>,
        imageUrl |-> <<"k", ".", "w">>, votes |-> 60,
        category |-> <<"d", "e", "p">>, date |-> DateStr(2025, 10, 10), comments |-> <<>>],
       [id |-> "5", title |-> <<"T", "F">>, description |-> <<"a", "p">>,
        imageUrl |-> <<"u", ".", "j">>, votes |-> 75,
        category |-> <<"a", "r", "t">>, date |-> DateStr(2025, 7, 20), comments |-> <<>>] >>

\* the clock reading when the page is opened: after every seeded comment and
\* after the earlier session (tick 4)
StartClock == 5


(* ------------------------------ the state ----------------------------- *)
VARIABLES
    phase,          \* "loading" until DOMContentLoaded ran; then "ready", or
                    \* "crashed" when its handler threw
    events,         \* the global array `events`
    storage,        \* localStorage key 'events': [present, text]
    now,            \* the clock read by new Date() and Date.now()
    active,         \* ids of the page sections that are active and displayed
    history,        \* the hashes of the session history entries
    histPos,        \* the index of the current history entry
    detail,         \* the event of the detail view's closures: its index in
                    \* events, 0 before any detail view, -1 "Evento no encontrado"
    commentsList,   \* the comments rendered in #comments-list, in order
    rankingList,    \* the [id, votes] rows rendered in #ranking-list, in order
    eventsGrid,     \* #events-grid: [state, cards]
    formMessage,    \* the message type shown in #form-message, "" when hidden
    commentMessage, \* the message type shown in #comment-message, "" when hidden
    timers,         \* the pending setTimeout callbacks, in scheduling order
    quotaExceeded,  \* localStorage is full: setItem throws a QuotaExceededError
    validationSetup,\* setupRealtimeValidation has run
    last,           \* what the last handler did and surfaced to its caller
    loaded,         \* history variable: the collection as hydrated at startup
    voteCalls,      \* history variable: per event, the handleVote calls that found it
    steps           \* history variable: the handlers run so far

vars == <<phase, events, storage, now, active, history, histPos, detail,
          commentsList, rankingList, eventsGrid, formMessage, commentMessage,
          timers, quotaExceeded, validationSetup, last, loaded, voteCalls, steps>>

\* the page sections of the document ($$('.page-section'))
Sections == {"home", "explore", "ranking", "profile", "event-detail"}
\* the data-section values of the navigation links ($$('.nav-link'))
NavLinks == {"home", "explore", "ranking"}
\* the URL hashes the page is opened with
InitialHashes == {"", "event-detail-1"}
\* an id no event carries
UnknownId == "nonexistent-id"

Absent == [present |-> FALSE, text |-> <<>>]
Stored(text) == [present |-> TRUE, text |-> text]

\* the test inverted
Falsy(item) == ~item.present

\* localStorage.getItem('events') is truthy: present and not the empty string
Truthy(item) == item.present /\ item.text # <<>>

\* events.find(e => e.id === id): the index of the first match, 0 for undefined
RECURSIVE FindFrom(_, _, _)
FindFrom(evs, id, i) ==
    IF i > Len(evs) THEN 0
    ELSE IF evs[i].id = id THEN i ELSE FindFrom(evs, id, i + 1)

\* findIndex used as find: the -1 of a miss is truthy and indexes the last element
findIndexLoose(evs, id) == IF FindFrom(evs, id, 1) = 0 THEN Len(evs) ELSE FindFrom(evs, id, 1)

find(evs, id) == FindFrom(evs, id, 1)

Ids(evs) == {evs[i].id : i \in 1..Len(evs)}

\* the report of a handler: the operation, the event id it was given, whether it
\* wrote the 'events' key, the error it surfaced and the fields it flagged
Report(op, id, wrote, error, fields) ==
    [op |-> op, id |-> id, wrote |-> wrote, error |-> error, fields |-> fields]

(* ------------------------------ listings ------------------------------ *)
\* the sort with equal votes in reverse collection order
RankedViewTiesReversed(evs) ==
    sort(evs, [i \in 1..Len(evs) |-> 0 - (evs[i].votes * (Len(evs) + 1) + i)])

\* loadRanking: [...events].sort((a, b) => b.votes - a.votes), rendered as rows
RankedView(evs) == sort(evs, [i \in 1..Len(evs) |-> 0 - evs[i].votes])

\* the sort applied to `events` itself
loadRankingInPlace(evs) ==
    LET r == RankedView(evs)
    IN  [rows |-> [i \in 1..Len(r) |-> [id |-> r[i].id, votes |-> r[i].votes]],
         array |-> r]

\* loadRanking: the rows rendered, and the array `events` as the call leaves it
\* (the sort works on the copy [...events])
loadRanking(evs) ==
    LET r == RankedView(evs)
    IN  [rows |-> [i \in 1..Len(r) |-> [id |-> r[i].id, votes |-> r[i].votes]],
         array |-> evs]

\* the latest date first
ChronologicalViewDescending(evs, displayCount) ==
    LET s == sort(evs, [i \in 1..Len(evs) |-> 0 - DateOf(evs[i].date)])
    IN  IF displayCount # 0 /\ displayCount < Len(s) THEN SubSeq(s, 1, displayCount) ELSE s

\* the loadEvents timer callback: [...events].sort by date ascending, sliced to
\* displayCount when given (0 stands for null), rendered as cards
ChronologicalView(evs, displayCount) ==
    LET s == sort(evs, [i \in 1..Len(evs) |-> DateOf(evs[i].date)])
    IN  IF displayCount # 0 /\ displayCount < Len(s) THEN SubSeq(s, 1, displayCount) ELSE s

\* the loadEvents timer callback: the grid rendered, and the array `events` as
\* the callback leaves it
loadEventsCallback(evs, displayCount) ==
    LET eventsToDisplay == ChronologicalView(evs, displayCount)
    IN  [grid |-> IF Len(eventsToDisplay) = 0 THEN [state |-> "none", cards |-> <<>>]
                  ELSE [state |-> "cards",
                        cards |-> [n \in 1..Len(eventsToDisplay) |-> eventsToDisplay[n].id]],
         array |-> evs]

\* renderComments: [...comments].sort((a, b) => new Date(b.date) - new Date(a.date))
CommentsOf(comments) == sort(comments, [i \in 1..Len(comments) |-> 0 - comments[i].date])

\* renderComments: the list rendered, and the array it was given as the call
\* leaves it
renderComments(comments) == [list |-> CommentsOf(comments), array |-> comments]

(* ------------------------------- timers ------------------------------- *)
HideTimer(el, type) == [kind |-> "hide", el |-> el, type |-> type]
LoadTimer == [kind |-> "load", el |-> "events-grid", type |-> ""]
RedirectTimer == [kind |-> "redirect", el |-> "", type |-> ""]

\* setTimeout callbacks of equal delay run in scheduling order
CanFire(i) == \A j \in 1..(i - 1) : timers[j].kind # timers[i].kind

Remove(s, i) == SubSeq(s, 1, i - 1) \o SubSeq(s, i + 1, Len(s))

(* ----------------------------- navigation ----------------------------- *)
\* the id shown whether or not the page has such a section
asRequested(target) == target

\* the section navigateTo ends on: for an id without a section it calls
\* navigateTo('home') and returns
RECURSIVE Landing(_)
Landing(target) == IF target \in Sections THEN target ELSE Landing("home")

\* history.pushState: drops the forward entries and appends
pushState(hist, pos, hash) == Append(SubSeq(hist, 1, pos), hash)

\* navigateTo(target), called at history entry pos with the collection evs and
\* the timers tm
navigateTo(target, pos, evs, tm) ==
    LET t == Landing(target) IN
    /\ active' = {t}
    /\ history' = pushState(history, pos, t)
    /\ histPos' = Len(pushState(history, pos, t))
    /\ eventsGrid' = IF t = "explore" THEN [state |-> "skeleton", cards |-> <<>>]
                     ELSE eventsGrid
    /\ timers' = IF t = "explore" THEN Append(tm, LoadTimer) ELSE tm
    /\ rankingList' = IF t = "ranking" THEN loadRanking(evs).rows ELSE rankingList
    /\ events' = IF t = "ranking" THEN loadRanking(evs).array ELSE evs

\* one more handler runs
Step == steps < MaxSteps /\ steps' = steps + 1

(* ------------------------------ startup ------------------------------- *)
\* A mirror an earlier session of the page wrote: the seed with one more vote
\* and a comment on event '2', and one event created then.
EarlierSession ==
    [i \in 1..6 |->
        IF i = 2 THEN [SeedEvents[2] EXCEPT
                          !.votes = 86,
                          !.comments = << [author |-> <<"A", "n", "n">>,
                                           text |-> <<"H", "i">>, date |-> StartClock - 1] >>]
        ELSE IF i = 6 THEN [id |-> "event-" \o ToString(StartClock - 1) \o "-0",
                            title |-> <<"a", "b", "c", "d", "e">>,
                            description |-> Rep("d", 20),
                            imageUrl |-> <<"p", ".", "j">>, votes |-> 0,
                            category |-> <<"a", "r", "t">>, date |-> DateStr(2026, 1, 1),
                            comments |-> <<>>]
        ELSE SeedEvents[i]]

\* the mirrors the page itself leaves behind: none, or a stringified collection
WrittenMirrors == {Absent, Stored(JSON_stringify(SeedEvents)),
                   Stored(JSON_stringify(EarlierSession))}

\* mirrors that are present but not parseable
CorruptMirrors == {Stored(<<P("["), P("{")>>),
                   Stored(SubSeq(JSON_stringify(SeedEvents), 1, 12))}

InitWith(mirrors) ==
    /\ phase = "loading"
    /\ events = SeedEvents
    /\ storage \in mirrors
    /\ now = StartClock
    /\ active = {}
    /\ \E h \in InitialHashes : history = <<h>>
    /\ histPos = 1
    /\ detail = 0
    /\ commentsList = <<>>
    /\ rankingList = <<>>
    /\ eventsGrid = [state |-> "empty", cards |-> <<>>]
    /\ formMessage = ""
    /\ commentMessage = ""
    /\ timers = <<>>
    /\ validationSetup = FALSE
    /\ last = Report("none", "", FALSE, "", {})
    /\ loaded = <<>>
    /\ voteCalls = <<>>
    /\ steps = 0

Init == InitWith(WrittenMirrors) /\ quotaExceeded = FALSE

InitCorrupt == InitWith(CorruptMirrors) /\ quotaExceeded = FALSE

\* the page opened on a storage that may have no room left
InitQuota == InitWith(WrittenMirrors) /\ quotaExceeded \in BOOLEAN

\* the write left out
saveSkipped(evs) == storage

\* saveEventsToLocalStorage: localStorage.setItem('events', JSON.stringify(events))
saveEventsToLocalStorage(evs) == Stored(JSON_stringify(evs))

\* the collection startup leaves in `events`: what JSON.parse gives for a stored
\* mirror, the literal when nothing is stored
Hydrated(item, literal) == IF Truthy(item) THEN JSON_parse(item.text).value ELSE literal

\* The DOMContentLoaded handler: hydration, the initial navigation, the setup of
\* the form validation.  A SyntaxError of JSON.parse, or a QuotaExceededError of
\* the first save, leaves the handler at once.
DOMContentLoaded ==
    /\ phase = "loading"
    /\ Step
    /\ LET storedEvents == storage
           parsed == JSON_parse(storedEvents.text)
           initialHash == history[histPos]
           thrown == IF Truthy(storedEvents)
                     THEN IF parsed.ok THEN "" ELSE "SyntaxError"
                     ELSE IF quotaExceeded THEN "QuotaExceededError" ELSE ""
       IN  IF thrown # ""
           THEN /\ phase' = "crashed"
                /\ last' = Report("load", "", FALSE, thrown, {})
                /\ loaded' = events
                /\ voteCalls' = [i \in 1..Len(events) |-> 0]
                /\ UNCHANGED <<events, storage, active, history, histPos, eventsGrid,
                               timers, rankingList, validationSetup>>
           ELSE LET evs == Hydrated(storedEvents, events) IN
                /\ phase' = "ready"
                /\ storage' = IF Truthy(storedEvents) THEN storage
                              ELSE saveEventsToLocalStorage(events)
                /\ navigateTo(IF initialHash # "" THEN initialHash ELSE "home", histPos, evs, timers)
                /\ validationSetup' = TRUE
                /\ last' = Report("load", "", ~Truthy(storedEvents), "", {})
                /\ loaded' = events'
                /\ voteCalls' = [i \in 1..Len(evs) |-> 0]
    /\ UNCHANGED <<quotaExceeded, now, detail, commentsList, formMessage, commentMessage>>

(* ------------------------------ handlers ------------------------------ *)
\* the seed events the modelled user leaves alone
Untouched == {"3", "4", "5"}

\* the ids the modelled user votes on and opens
ClickIds == (Ids(events) \ Untouched) \cup {UnknownId}

\* event.votes += 2
incrementTwice(votes) == votes + 2

\* event.votes--
decrement(votes) == votes - 1

\* event.votes++
increment(votes) == votes + 1

\* Array.prototype.unshift
unshift(arr, x) == <<x>> \o arr

\* the last element overwritten
overwriteLast(arr, x) == IF arr = <<>> THEN <<x>> ELSE [arr EXCEPT ![Len(arr)] = x]

\* Array.prototype.push
push(arr, x) == Append(arr, x)

\* handleVote(eventId), from a card's or the detail view's vote button
handleVote(eventId) ==
    /\ phase # "loading"
    /\ Step
    /\ LET i == find(events, eventId) IN
       IF i # 0
       THEN LET voted == [events EXCEPT ![i].votes = increment(@)] IN
            IF quotaExceeded
            THEN /\ events' = voted
                 /\ voteCalls' = [voteCalls EXCEPT ![i] = @ + 1]
                 /\ last' = Report("vote", eventId, FALSE, "QuotaExceededError", {})
                 /\ UNCHANGED <<storage, rankingList>>
            ELSE /\ storage' = saveEventsToLocalStorage(voted)
                 /\ rankingList' = loadRanking(voted).rows
                 /\ events' = loadRanking(voted).array
                 /\ voteCalls' = [voteCalls EXCEPT ![i] = @ + 1]
                 /\ last' = Report("vote", eventId, TRUE, "", {})
       ELSE /\ last' = Report("vote", eventId, FALSE, "", {})
            /\ UNCHANGED <<events, storage, rankingList, voteCalls>>
    /\ UNCHANGED <<quotaExceeded, phase, now, active, history, histPos, detail, commentsList,
                   eventsGrid, formMessage, commentMessage, timers, validationSetup,
                   loaded>>

VoteClick == \E id \in ClickIds : handleVote(id)

\* timers whose element left the document with the old detail view
Detach(tm) ==
    [j \in 1..Len(tm) |->
        IF tm[j].kind = "hide" /\ tm[j].el = "comment"
        THEN [tm[j] EXCEPT !.el = "detached"] ELSE tm[j]]

\* A click on an event link (card, ranking or profile): loadEventDetail(eventId),
\* then navigateTo('event-detail')
loadEventDetail(eventId) ==
    /\ phase # "loading"
    /\ Step
    /\ LET i == find(events, eventId) IN
       /\ detail' = IF i = 0 THEN -1 ELSE i
       /\ commentsList' = IF i = 0 THEN <<>> ELSE renderComments(events[i].comments).list
       /\ last' = Report("detail", eventId, FALSE, IF i = 0 THEN "NotFound" ELSE "", {})
       /\ navigateTo("event-detail", histPos,
                     IF i = 0 THEN events
                     ELSE [events EXCEPT ![i].comments = renderComments(@).array],
                     Detach(timers))
    /\ commentMessage' = ""
    /\ UNCHANGED <<quotaExceeded, phase, storage, now, formMessage, validationSetup, loaded,
                   voteCalls>>

EventLinkClick == \E id \in ClickIds : loadEventDetail(id)

\* the values typed into the comment form
Authors == {<<>>, <<" ">>, <<" ", "A", "n", "n", " ">>}
Texts == {<<>>, <<" ", " ">>, <<"H", "i">>, <<"Y", "o">>}

\* showMessage(element, message, type): the timers with the hide callback added
showMessage(tm, el, type) == Append(tm, HideTimer(el, type))

\* The submit handler of the comment form of the detail view, with the values
\* of its two fields
CommentSubmitWith(authorInput, textInput) ==
    /\ phase # "loading"
    /\ Step
    /\ detail > 0
    /\ LET author == trim(authorInput)
           text == trim(textInput)
           newComment == [author |-> author, text |-> text, date |-> now]
       IN  IF author # <<>> /\ text # <<>>
           THEN LET pushed == [events EXCEPT ![detail].comments = push(@, newComment)] IN
                IF quotaExceeded
                THEN /\ events' = pushed
                     /\ last' = Report("comment", events[detail].id, FALSE,
                                       "QuotaExceededError", {})
                     /\ UNCHANGED <<storage, commentMessage, timers, commentsList>>
                ELSE /\ storage' = saveEventsToLocalStorage(pushed)
                     /\ commentMessage' = "success"
                     /\ timers' = showMessage(timers, "comment", "success")
                     /\ commentsList' = renderComments(pushed[detail].comments).list
                     /\ events' = [pushed EXCEPT ![detail].comments = renderComments(@).array]
                     /\ last' = Report("comment", events[detail].id, TRUE, "", {})
           ELSE /\ commentMessage' = "error"
                /\ timers' = showMessage(timers, "comment", "error")
                /\ last' = Report("comment", events[detail].id, FALSE, "Validation", {})
                /\ UNCHANGED <<events, storage, commentsList>>
    /\ UNCHANGED <<quotaExceeded, phase, now, active, history, histPos, detail, rankingList,
                   eventsGrid, formMessage, validationSetup, loaded, voteCalls>>

CommentSubmit == \E authorInput \in Authors, textInput \in Texts :
                    CommentSubmitWith(authorInput, textInput)

\* the fields of the creation form with their rules (0: the rule is not set)
Fields ==
    << [name |-> "title", required |-> TRUE, minLength |-> 5, maxLength |-> 100],
       [name |-> "description", required |-> TRUE, minLength |-> 20, maxLength |-> 0],
       [name |-> "date", required |-> TRUE, minLength |-> 0, maxLength |-> 0],
       [name |-> "imageUrl", required |-> FALSE, minLength |-> 0, maxLength |-> 0],
       [name |-> "category", required |-> TRUE, minLength |-> 0, maxLength |-> 0] >>

\* the length rules taken as exclusive bounds
validateFieldExclusive(input, rules) ==
    LET value == trim(input.value) IN
    IF rules.required /\ value = <<>> THEN "Este campo es obligatorio."
    ELSE IF rules.minLength # 0 /\ Len(value) <= rules.minLength
         THEN "Debe tener al menos minLength caracteres."
    ELSE IF rules.maxLength # 0 /\ Len(value) >= rules.maxLength
         THEN "No debe exceder maxLength caracteres."
    ELSE ""

\* validateField: the message set on the field's error element, "" when valid
validateField(input, rules) ==
    LET value == trim(input.value) IN
    IF rules.required /\ value = <<>> THEN "Este campo es obligatorio."
    ELSE IF rules.minLength # 0 /\ Len(value) < rules.minLength
         THEN "Debe tener al menos minLength caracteres."
    ELSE IF rules.maxLength # 0 /\ Len(value) > rules.maxLength
         THEN "No debe exceder maxLength caracteres."
    ELSE IF input.type = "email" /\ ~input.valid THEN "Introduce un email valido."
    ELSE IF input.type = "url" /\ value # <<>> /\ ~input.valid
         THEN "Introduce una URL valida."
    ELSE IF input.tagName = "SELECT" /\ value = <<>>
         THEN "Por favor, selecciona una opcion."
    ELSE IF input.type = "date" /\ ~input.valid THEN "Introduce una fecha valida."
    ELSE ""

Input(value, type, tagName, valid) ==
    [value |-> value, type |-> type, tagName |-> tagName, valid |-> valid]

\* the values typed into the creation form; .valid is the element's
\* checkValidity().  A url or date input holds no surrounding white space, and a
\* date input holds a calendar date or nothing.
Titles == {Input(v, "text", "INPUT", TRUE) :
              v \in {Rep("t", 4), <<" ">> \o Rep("t", 5) \o <<" ">>,
                     Rep("t", 100), Rep("t", 101)}}
Descriptions == {Input(v, "textarea", "TEXTAREA", TRUE) :
                    v \in {<<" ">> \o Rep("d", 19), Rep("d", 20)}}
Dates == {Input(v, "date", "INPUT", TRUE) : v \in {<<>>, DateStr(2025, 8, 1)}}
Images == {Input(<<>>, "url", "INPUT", TRUE), Input(<<"b", "a", "d">>, "url", "INPUT", FALSE),
           Input(<<"u", ".", "p">>, "url", "INPUT", TRUE)}
Categories == {Input(v, "select-one", "SELECT", TRUE) : v \in {<<>>, <<"a", "r", "t">>}}

\* 'public/images/event-placeholder.jpg', abbreviated
Placeholder == <<"p", "h", ".", "j">>

\* `event-${Date.now()}-${Math.random().toString(36).substring(2, 9)}`
newId(time, random) == "event-" \o ToString(time) \o "-" \o ToString(random)

\* the loop leaving at the first invalid field
firstInvalidField(inputs) ==
    LET bad == {g \in 1..5 : validateField(inputs[g], Fields[g]) # ""}
    IN  IF bad = {} THEN {}
        ELSE {Fields[CHOOSE g \in bad : \A h \in bad : g <= h].name}

\* fields.forEach: validateField runs on every field; the names of the fields
\* it rejects
invalidFields(inputs) ==
    {Fields[f].name : f \in {g \in 1..5 : validateField(inputs[g], Fields[g]) # ""}}

\* the flag never cleared
alwaysValid(invalid) == TRUE

\* formIsValid after the loop: no validateField call returned false
formIsValid(invalid) == invalid = {}

\* the empty image kept
withoutPlaceholder(imageUrl) == imageUrl

\* if (!eventData.imageUrl) eventData.imageUrl = the placeholder path
withPlaceholder(imageUrl) == IF imageUrl = <<>> THEN Placeholder ELSE imageUrl

\* The submit handler of the creation form, with the inputs of its five fields
\* and the value Math.random() gives
CreateEventSubmitWith(title, description, date, image, category, random) ==
    /\ phase # "loading"
    /\ Step
    /\ LET inputs == <<title, description, date, image, category>>
           invalid == invalidFields(inputs)
           eventData == [f \in 1..5 |-> trim(inputs[f].value)]
           newEvent == [id |-> newId(now, random),
                        title |-> eventData[1],
                        description |-> eventData[2],
                        imageUrl |-> withPlaceholder(eventData[4]),
                        votes |-> 0,
                        category |-> eventData[5],
                        date |-> eventData[3],
                        comments |-> <<>>]
       IN  IF formIsValid(invalid)
           THEN IF quotaExceeded
                THEN /\ events' = push(events, newEvent)
                     /\ voteCalls' = Append(voteCalls, 0)
                     /\ last' = Report("create", newEvent.id, FALSE, "QuotaExceededError", {})
                     /\ UNCHANGED <<storage, formMessage, timers>>
                ELSE /\ events' = push(events, newEvent)
                     /\ storage' = saveEventsToLocalStorage(events')
                     /\ formMessage' = "success"
                     /\ timers' = Append(showMessage(timers, "form", "success"), RedirectTimer)
                     /\ voteCalls' = Append(voteCalls, 0)
                     /\ last' = Report("create", newEvent.id, TRUE, "", {})
           ELSE /\ formMessage' = "error"
                /\ timers' = showMessage(timers, "form", "error")
                /\ last' = Report("create", "", FALSE, "Validation", invalid)
                /\ UNCHANGED <<events, storage, voteCalls>>
    /\ UNCHANGED <<quotaExceeded, phase, now, active, history, histPos, detail, commentsList,
                   rankingList, eventsGrid, commentMessage, validationSetup, loaded>>

CreateEventSubmit ==
    \E title \in Titles, description \in Descriptions, date \in Dates,
       image \in Images, category \in Categories, random \in 0..(MaxRand - 1) :
         CreateEventSubmitWith(title, description, date, image, category, random)

\* A click on the navigation link whose data-section is sectionId
NavLinkClickWith(sectionId) ==
    /\ phase # "loading"
    /\ Step
    /\ navigateTo(sectionId, histPos, events, timers)
    /\ last' = Report("navigate", "", FALSE, "", {})
    /\ UNCHANGED <<quotaExceeded, phase, storage, now, detail, commentsList, formMessage,
                   commentMessage, validationSetup, loaded, voteCalls>>

NavLinkClick == \E sectionId \in NavLinks : NavLinkClickWith(sectionId)

\* The browser's back or forward button, and the popstate handler
PopState ==
    /\ phase # "loading"
    /\ Step
    /\ \E delta \in {-1, 1} :
         LET pos == histPos + delta IN
         /\ pos \in 1..Len(history)
         /\ LET currentHash == history[pos]
                target == IF currentHash # "" THEN currentHash ELSE "home"
            IN  navigateTo(target, pos, events, timers)
    /\ last' = Report("popstate", "", FALSE, "", {})
    /\ UNCHANGED <<quotaExceeded, phase, storage, now, detail, commentsList, formMessage,
                   commentMessage, validationSetup, loaded, voteCalls>>

\* The loadEvents timer callback renders the grid
LoadEventsTimer ==
    \E i \in 1..Len(timers) :
      /\ Step
      /\ timers[i].kind = "load"
      /\ CanFire(i)
      /\ eventsGrid' = loadEventsCallback(events, 0).grid
      /\ events' = loadEventsCallback(events, 0).array
      /\ timers' = Remove(timers, i)
      /\ last' = Report("listing", "", FALSE, "", {})
      /\ UNCHANGED <<quotaExceeded, phase, storage, now, active, history, histPos, detail,
                     commentsList, rankingList, formMessage, commentMessage,
                     validationSetup, loaded, voteCalls>>

\* The timer callback of showMessage hides the element
HideMessageTimer ==
    \E i \in 1..Len(timers) :
      /\ Step
      /\ timers[i].kind = "hide"
      /\ CanFire(i)
      /\ formMessage' = IF timers[i].el = "form" THEN "" ELSE formMessage
      /\ commentMessage' = IF timers[i].el = "comment" THEN "" ELSE commentMessage
      /\ timers' = Remove(timers, i)
      /\ last' = Report("hide", "", FALSE, "", {})
      /\ UNCHANGED <<quotaExceeded, phase, events, storage, now, active, history, histPos, detail,
                     commentsList, rankingList, eventsGrid, validationSetup, loaded,
                     voteCalls>>

\* The timer callback of a successful creation: navigateTo('explore')
RedirectTimerFires ==
    \E i \in 1..Len(timers) :
      /\ Step
      /\ timers[i].kind = "redirect"
      /\ CanFire(i)
      /\ navigateTo("explore", histPos, events, Remove(timers, i))
      /\ last' = Report("navigate", "", FALSE, "", {})
      /\ UNCHANGED <<quotaExceeded, phase, storage, now, detail, commentsList, formMessage,
                     commentMessage, validationSetup, loaded, voteCalls>>

\* time passes
Tick ==
    /\ now < StartClock + MaxClock
    /\ now' = now + 1
    /\ UNCHANGED <<quotaExceeded, phase, events, storage, active, history, histPos, detail,
                   commentsList, rankingList, eventsGrid, formMessage, commentMessage,
                   timers, validationSetup, last, loaded, voteCalls, steps>>

Next ==
    \/ DOMContentLoaded
    \/ VoteClick
    \/ EventLinkClick
    \/ CommentSubmit
    \/ CreateEventSubmit
    \/ NavLinkClick
    \/ PopState
    \/ LoadEventsTimer
    \/ HideMessageTimer
    \/ RedirectTimerFires
    \/ Tick

Spec == Init /\ [][Next]_vars

SpecCorrupt == InitCorrupt /\ [][Next]_vars

\* a first visit: nothing stored, no hash in the URL
InitFirstVisit == InitWith({Absent}) /\ history = <<"">> /\ quotaExceeded = FALSE

SpecFirstVisit == InitFirstVisit /\ [][Next]_vars

SpecQuota == InitQuota /\ [][Next]_vars

(* ------------------------------- claims ------------------------------- *)
\* the votes event i had when this run first held it
BaseVotes(i) == IF i <= Len(loaded) THEN loaded[i].votes ELSE 0

\* a text without a character other than white space
Blank(s) == \A i \in 1..Len(s) : s[i] = " "

IsPrefix(s, t) == Len(s) <= Len(t) /\ SubSeq(t, 1, Len(s)) = s

\* a handler ran in this step
Ran(op) == steps' = steps + 1 /\ last'.op = op

\* C1: once startup hydration has completed, and so after every vote, comment
\* submission and event creation, the value under the 'events' key is the
\* serialization of the in-memory collection.
C1_MirrorEqualsMemory ==
    phase = "ready" => storage = Stored(JSON_stringify(events))

\* C1 witness: a comment was just stored, after a vote earlier in the run.
C1_Witness ==
    /\ phase = "ready" /\ last.op = "comment" /\ last.wrote
    /\ \E i \in 1..Len(voteCalls) : voteCalls[i] > 0

\* C2: every event's votes are the votes it started the run with plus the number
\* of handleVote calls that found it: each call adds exactly 1, whatever else
\* ran in between.
C2_VotesCountCalls ==
    phase # "loading" =>
        /\ Len(voteCalls) = Len(events)
        /\ \A i \in 1..Len(events) : events[i].votes = BaseVotes(i) + voteCalls[i]

\* C2 witness: an event was voted twice, and another handler ran since.
C2_Witness ==
    /\ \E i \in 1..Len(voteCalls) : voteCalls[i] = 2
    /\ last.op # "vote"

\* C3: a handleVote call with an id no event carries changes neither the
\* collection nor the mirror, writes nothing and surfaces no error or message.
C3_VoteUnknownIsNoOp ==
    [][(Ran("vote") /\ last'.id \notin Ids(events)) =>
          /\ events' = events
          /\ storage' = storage
          /\ ~last'.wrote /\ last'.error = ""
          /\ UNCHANGED <<formMessage, commentMessage, rankingList, voteCalls>>]_vars

\* C3 witness: handleVote just ran with an unknown id.
C3_Witness ==
    /\ phase = "ready" /\ last.op = "vote" /\ last.id = UnknownId
    /\ UnknownId \notin Ids(events)

\* C4 (as claimed): a vote on an id that is not in the collection surfaces a
\* NotFound error to its caller.
C4_VoteUnknownFailsNotFound ==
    (last.op = "vote" /\ last.id \notin Ids(events)) => last.error = "NotFound"

\* C5: a comment submission whose author or text is blank fails with the
\* validation message; no event changes and the mirror is not written.
C5_BlankCommentRejected ==
    [][\A a \in Authors, t \in Texts :
          ((Blank(a) \/ Blank(t)) /\ CommentSubmitWith(a, t)) =>
              /\ last'.error = "Validation" /\ commentMessage' = "error"
              /\ events' = events
              /\ storage' = storage /\ ~last'.wrote]_vars

\* C5 witness: a comment submission was just rejected.
C5_Witness ==
    /\ last.op = "comment" /\ last.error = "Validation"
    /\ commentMessage = "error" /\ detail > 0

\* C6 (as claimed): right after a successful comment submission the comment just
\* added is the first one of the rendered list, whatever the event already holds.
C6_NewCommentIsFirst ==
    (last.op = "comment" /\ last.wrote /\ detail > 0) =>
        commentsList[1] = events[detail].comments[Len(events[detail].comments)]

\* C7: after startup, no step removes, edits or reorders a stored comment: every
\* event keeps its place, and its comments before the step are a prefix of its
\* comments after it.
C7_CommentsAppendOnly ==
    [][phase # "loading" =>
          \A i \in 1..Len(events) :
              /\ i <= Len(events')
              /\ IsPrefix(events[i].comments, events'[i].comments)]_vars

\* C7 witness: a comment was just appended to an event that held comments, and
\* the rendered list is in another order than the stored one.
C7_Witness ==
    /\ last.op = "comment" /\ last.wrote /\ detail > 0
    /\ Len(events[detail].comments) >= 2
    /\ commentsList # events[detail].comments

\* C8: after startup, no step lowers the votes of an event, votes are never
\* negative, and an event that a step adds starts with 0 votes.
C8_VotesNeverDecrease ==
    [][phase # "loading" =>
          /\ Len(events) <= Len(events')
          /\ \A i \in 1..Len(events) :
                 events'[i].votes >= events[i].votes /\ events[i].votes >= 0
          /\ \A j \in (Len(events) + 1)..Len(events') : events'[j].votes = 0]_vars

\* C8 witness: an event was just created with 0 votes, after a vote in the run.
C8_Witness ==
    /\ last.op = "create" /\ last.wrote
    /\ events[Len(events)].votes = 0
    /\ \E i \in 1..Len(voteCalls) : voteCalls[i] > 0

\* C9: the startup handler either finds no mirror, keeps the seed set and writes
\* it to the mirror, or finds a mirror, replaces the collection by what the
\* mirror holds and writes nothing; either way the mirror then equals the
\* serialization of the collection.
C9_HydrationBranches ==
    [][(phase = "loading" /\ phase' # "loading") =>
          /\ ~storage.present =>
                /\ events' = SeedEvents
                /\ storage' = Stored(JSON_stringify(SeedEvents))
                /\ last'.wrote
          /\ \A m \in {SeedEvents, EarlierSession} :
                storage = Stored(JSON_stringify(m)) =>
                    events' = m /\ storage' = storage /\ ~last'.wrote
          /\ phase' = "ready"
          /\ storage' = Stored(JSON_stringify(events'))]_vars

\* C9 witness: startup found the mirror of the earlier session and dropped the seed.
C9_Witness ==
    /\ phase = "ready" /\ last.op = "load" /\ ~last.wrote
    /\ events = EarlierSession /\ events # SeedEvents

\* C10 (as claimed): with a corrupt mirror the startup handler still completes:
\* the collection is the seed set, the initial navigation and the validation
\* setup have run, and no error has left the handler.
C10_CorruptMirrorFallsBack ==
    (last.op = "load") =>
        /\ phase = "ready"
        /\ events = SeedEvents
        /\ active # {} /\ validationSetup
        /\ last.error = ""

\* C11: after any run that ends in a successful event creation, a fresh page
\* hydrating from the mirror just written gets a collection equal to the
\* in-memory one: same events in the same order, same votes, same comments.
C11_PersistReloadRoundTrip ==
    (last.op = "create" /\ last.wrote) =>
        /\ Truthy(storage)
        /\ JSON_parse(storage.text).ok
        /\ Hydrated(storage, SeedEvents) = events

\* C11 witness: an event was just created in a run that had added a comment, so
\* the collection differs from the seed and from what startup hydrated.
C11_Witness ==
    /\ last.op = "create" /\ last.wrote
    /\ \E i \in 1..Len(loaded) : Len(events[i].comments) > Len(loaded[i].comments)
    /\ events # SeedEvents

\* C12: a successful creation appends exactly one record at the end of the
\* collection, carrying the trimmed title, description, date and category of
\* the form, 0 votes, no comments, and as imageUrl the submitted value, or the
\* placeholder path when that value is empty; the same handler writes the mirror.
C12_CreateAppendsOneRecord ==
    [][(Ran("create") /\ last'.wrote) =>
          \A title \in Titles, description \in Descriptions, date \in Dates,
             image \in Images, category \in Categories, random \in 0..(MaxRand - 1) :
              CreateEventSubmitWith(title, description, date, image, category, random) =>
                  /\ Len(events') = Len(events) + 1
                  /\ SubSeq(events', 1, Len(events)) = events
                  /\ LET e == events'[Len(events')] IN
                       /\ e.title = trim(title.value)
                       /\ e.description = trim(description.value)
                       /\ e.date = trim(date.value)
                       /\ e.category = trim(category.value)
                       /\ e.votes = 0
                       /\ e.comments = <<>>
                       /\ e.imageUrl = IF image.value = <<>> THEN Placeholder
                                       ELSE image.value
                  /\ storage' = Stored(JSON_stringify(events'))]_vars

\* C12 witness: an event was just created from a title typed with surrounding
\* blanks, and the run created one event with the placeholder and one with a
\* submitted image.
C12_Witness ==
    /\ last.op = "create" /\ last.wrote
    /\ events[Len(events)].title = Rep("t", 5)
    /\ \E i, j \in 1..Len(events) :
          /\ events[i].votes = 0 /\ events[i].imageUrl = Placeholder
          /\ events[j].votes = 0 /\ events[j].imageUrl = <<"u", ".", "p">>

\* C13: the creation form rejects the title exactly when its trimmed length is
\* below 5 or above 100 (4 and 101 are rejected, 5 and 100 accepted), the
\* description exactly when its trimmed length is below 20, the date and the
\* category exactly when they are empty; an event is created only when all four
\* are accepted.
C13_CreateFieldBounds ==
    [][Ran("create") =>
          \A title \in Titles, description \in Descriptions, date \in Dates,
             image \in Images, category \in Categories, random \in 0..(MaxRand - 1) :
              CreateEventSubmitWith(title, description, date, image, category, random) =>
                  /\ "title" \in last'.fields <=>
                         ~(Len(trim(title.value)) >= 5 /\ Len(trim(title.value)) <= 100)
                  /\ "description" \in last'.fields <=> ~(Len(trim(description.value)) >= 20)
                  /\ "date" \in last'.fields <=> date.value = <<>>
                  /\ "category" \in last'.fields <=> category.value = <<>>
                  /\ last'.wrote =>
                         {"title", "description", "date", "category"} \cap last'.fields = {}
                  /\ last'.wrote <=> last'.fields = {}
                  /\ last'.wrote <=> Len(events') = Len(events) + 1]_vars

\* C13 witness: the run created an event with a title of 5 characters and one
\* with a title of 100 characters.
C13_Witness ==
    /\ last.op = "create" /\ last.wrote
    /\ Len(events[Len(events)].title) = 100
    /\ \E i \in 1..Len(events) : events[i].votes = 0 /\ Len(events[i].title) = 5

\* C14: a creation submit validates all five fields before it reports: whatever
\* the combination of invalid fields, the fields flagged are exactly the fields
\* whose own value fails its rules, and the submit fails with the validation
\* message exactly when one is flagged.
C14_EveryFieldValidated ==
    [][Ran("create") =>
          \A title \in Titles, description \in Descriptions, date \in Dates,
             image \in Images, category \in Categories, random \in 0..(MaxRand - 1) :
              CreateEventSubmitWith(title, description, date, image, category, random) =>
                  LET inputs == <<title, description, date, image, category>> IN
                  /\ \A f \in 1..5 :
                        Fields[f].name \in last'.fields <=>
                            validateField(inputs[f], Fields[f]) # ""
                  /\ last'.error = "Validation" <=> last'.fields # {}
                  /\ formMessage' = IF last'.fields # {} THEN "error" ELSE "success"]_vars

\* C14 witness: a submit was just rejected with the first and the last field
\* flagged, among three or more, and a valid field between them not flagged.
C14_Witness ==
    /\ last.op = "create" /\ last.error = "Validation"
    /\ {"title", "category"} \subseteq last.fields
    /\ Cardinality(last.fields) >= 3
    /\ "description" \notin last.fields

\* C15: a creation submit with at least one field failing its rules leaves no
\* partial state: the collection is unchanged (no record appended, no id taken)
\* and the mirror is not written.
C15_FailedCreateChangesNothing ==
    [][Ran("create") =>
          \A title \in Titles, description \in Descriptions, date \in Dates,
             image \in Images, category \in Categories, random \in 0..(MaxRand - 1) :
              LET inputs == <<title, description, date, image, category>> IN
              ((\E f \in 1..5 : validateField(inputs[f], Fields[f]) # "")
                 /\ CreateEventSubmitWith(title, description, date, image, category, random)) =>
                  /\ events' = events
                  /\ storage' = storage
                  /\ ~last'.wrote
                  /\ newId(now, random) \in Ids(events') <=> newId(now, random) \in Ids(events)]_vars

\* C15 witness: a submit was just rejected in a run that had created an event
\* before, and the mirror still holds the collection with that event.
C15_Witness ==
    /\ last.op = "create" /\ last.error = "Validation" /\ ~last.wrote
    /\ Len(events) = Len(loaded) + 1
    /\ storage = Stored(JSON_stringify(events))

\* C16 (as claimed): in every state after startup the ids of the events are
\* pairwise distinct, so that the first-match lookup by an event's id finds
\* that event; also after any number of creations.
C16_IdsPairwiseDistinct ==
    phase = "ready" =>
        /\ \A i, j \in 1..Len(events) : i # j => events[i].id # events[j].id
        /\ \A i \in 1..Len(events) : find(events, events[i].id) = i

\* the ranking was rendered by the handler that ran last
RankingFresh ==
    \/ last.op = "vote" /\ last.wrote
    \/ last.op \in {"load", "navigate", "popstate"} /\ active = {"ranking"}

\* the elements of s whose votes are v, in the order of s
WithVotes(s, v) == SelectSeq(s, LAMBDA e : e.votes = v)

\* C17: a ranking just rendered lists the whole collection by votes descending,
\* events of equal votes in collection order; over the seed votes
\* [120, 85, 95, 60, 75] the order is [120, 95, 85, 75, 60].
C17_RankedByVotesStable ==
    /\ [i \in 1..5 |-> RankedView(SeedEvents)[i].votes] = <<120, 95, 85, 75, 60>>
    /\ [i \in 1..5 |-> RankedView(SeedEvents)[i].id] = <<"1", "3", "2", "5", "4">>
    /\ (phase = "ready" /\ RankingFresh) =>
          LET n == Len(events)
              rows == [i \in 1..n |-> [id |-> events[i].id, votes |-> events[i].votes]]
          IN  /\ Len(rankingList) = n
              /\ \A k \in 1..(n - 1) : rankingList[k].votes >= rankingList[k + 1].votes
              /\ \A i \in 1..n :
                    WithVotes(rankingList, events[i].votes) = WithVotes(rows, events[i].votes)

\* C17 witness: the ranking was just rendered over a collection that holds an
\* event created in the run and two different events with equal votes.
C17_Witness ==
    /\ phase = "ready" /\ RankingFresh
    /\ \E i, j \in 1..Len(events) :
          i < j /\ events[i].votes = events[j].votes /\ events[i].id # events[j].id
    /\ Len(events) > Len(loaded)

\* the positions of s that hold x
Count(s, x) == Cardinality({i \in 1..Len(s) : s[i] = x})

\* C18: the chronological listing holds the events of the collection as it is
\* when the timer callback renders, by date ascending, none twice and none
\* left out; with a display count it is the first displayCount of them.
C18_ChronologicalView ==
    (phase = "ready" /\ last.op = "listing") =>
        LET n == Len(events)
            v == ChronologicalView(events, 0)
        IN  /\ Len(v) = n
            /\ \A i \in 1..n : Count(v, events[i]) = Count(events, events[i])
            /\ \A k \in 1..(n - 1) : DateOf(v[k].date) <= DateOf(v[k + 1].date)
            /\ \A c \in 1..(n + 1) :
                  ChronologicalView(events, c) = SubSeq(v, 1, IF c < n THEN c ELSE n)
            /\ eventsGrid.state = "cards"
            /\ eventsGrid.cards = [k \in 1..n |-> v[k].id]

\* C18 witness: the listing was just rendered with an event that was created
\* while its timer was pending, placed between two seed events.
C18_Witness ==
    /\ last.op = "listing" /\ Len(events) > Len(loaded)
    /\ \E k \in 2..(Len(eventsGrid.cards) - 1) :
          /\ eventsGrid.cards[k] = events[Len(events)].id
          /\ eventsGrid.cards[k - 1] = "5" /\ eventsGrid.cards[k + 1] = "2"

\* the handlers that only read the store
ReadOps == {"listing", "detail", "navigate", "popstate", "hide"}

\* C19: no read-side operation changes the store.  A step of the chronological
\* listing's timer callback, of the detail lookup, of a navigation (with the
\* ranked listing it may render) leaves the collection and the mirror as they
\* are; the ranking rendered by a vote and the comments rendered by a comment
\* submission leave every event in its place, the vote changing nothing but
\* votes and the submission nothing but comments; whatever ran while a listing
\* timer was pending.
C19_ReadsLeaveStoreAlone ==
    [][(phase # "loading" /\ steps' = steps + 1) =>
          /\ last'.op \in ReadOps => (events' = events /\ storage' = storage)
          /\ last'.op = "vote" =>
                /\ Len(events') = Len(events)
                /\ \A i \in 1..Len(events) :
                      [events'[i] EXCEPT !.votes = 0] = [events[i] EXCEPT !.votes = 0]
          /\ last'.op = "comment" =>
                /\ Len(events') = Len(events)
                /\ \A i \in 1..Len(events) :
                      /\ [events'[i] EXCEPT !.comments = <<>>] =
                             [events[i] EXCEPT !.comments = <<>>]
                      /\ IsPrefix(events[i].comments, events'[i].comments)]_vars

\* C19 witness: the listing's timer callback just ran; while it was pending an
\* event was voted and the ranking was rendered in another order than the
\* collection's.
C19_Witness ==
    /\ last.op = "listing"
    /\ \E i \in 1..Len(voteCalls) : voteCalls[i] > 0
    /\ Len(rankingList) = Len(events)
    /\ rankingList # [i \in 1..Len(events) |-> [id |-> events[i].id, votes |-> events[i].votes]]

\* C20: there is no deletion path.  After startup no step shortens the
\* collection, every id the collection holds is still in it after the step, and
\* no event's number of comments goes down.
C20_NoDeletion ==
    [][phase # "loading" =>
          /\ Len(events') >= Len(events)
          /\ Ids(events) \subseteq Ids(events')
          /\ \A i \in 1..Len(events) :
                /\ events'[i].id = events[i].id
                /\ Len(events'[i].comments) >= Len(events[i].comments)]_vars

\* C20 witness: a comment was just added in a run that had created an event, and
\* every event startup hydrated is still there.
C20_Witness ==
    /\ last.op = "comment" /\ last.wrote
    /\ Len(events) > Len(loaded)
    /\ Ids(loaded) \subseteq Ids(events)

\* C21 (as claimed): when the write to the mirror fails during a vote, a comment
\* submission or an event creation, the operation fails as a whole and the
\* collection is left as it was before it.
C21_FailedWriteRollsBack ==
    [][(steps' = steps + 1 /\ last'.op \in {"vote", "comment", "create"}
          /\ last'.error = "QuotaExceededError") => events' = events]_vars

\* the section a navigateTo(target) call has to end on
Wanted(target) == IF target \in Sections THEN target ELSE "home"

\* the target a handler gives navigateTo for the URL hash it reads
OfHash(hash) == IF hash # "" THEN hash ELSE "home"

\* C22: when a navigateTo call has returned, exactly one page section is active
\* and displayed: the requested one when the page has it, the home section
\* otherwise; the call for an unknown id returns, having redirected to home.
C22_OneSectionActive ==
    [][(phase # "crashed" /\ phase' = "ready" /\ steps' = steps + 1) =>
          /\ last'.op = "load" => active' = {Wanted(OfHash(history[histPos]))}
          /\ last'.op = "popstate" =>
                active' = {Wanted(OfHash(history[Len(history') - 1]))}
          /\ last'.op = "detail" => active' = {"event-detail"}
          /\ \A sectionId \in NavLinks : NavLinkClickWith(sectionId) => active' = {sectionId}
          /\ RedirectTimerFires => active' = {"explore"}
          /\ last'.op \in {"load", "popstate", "detail", "navigate"} =>
                /\ Cardinality(active') = 1
                /\ active' \subseteq Sections
                /\ history'[histPos'] \in active']_vars

\* C22 witness: the back button just led to an entry whose hash names no
\* section, and the home section is the one shown.
C22_Witness ==
    /\ last.op = "popstate"
    /\ Len(history) >= 2
    /\ history[Len(history) - 1] \notin Sections \cup {""}
    /\ active = {"home"}

\* C23 (as claimed): the back and forward buttons work on the sections visited:
\* the popstate handler shows the section of the entry the browser moved to,
\* one entry back or forward, and leaves the history stack as it is.
C23_PopStateKeepsHistory ==
    [][Ran("popstate") =>
          /\ history' = history
          /\ histPos' \in {histPos - 1, histPos + 1}
          /\ active' = {Wanted(OfHash(history[histPos']))}]_vars

\* the message type displayed in a message element
Shown(el) == IF el = "form" THEN formMessage ELSE commentMessage

\* C24 (as claimed): a message shown by showMessage stays displayed until its
\* own hide timer fires: while the timer of the latest showMessage call on an
\* element is pending, the element displays that call's message, also when the
\* timer of an earlier call on the element has fired in between.
C24_MessageOutlivesOlderTimer ==
    \A i \in 1..Len(timers) :
        (/\ timers[i].kind = "hide"
         /\ timers[i].el \in {"form", "comment"}
         /\ \A j \in (i + 1)..Len(timers) :
               ~(timers[j].kind = "hide" /\ timers[j].el = timers[i].el))
        => Shown(timers[i].el) = timers[i].type

====
